---- MODULE Spec2Model ----
(***************************************************************************)
(* Redis-backed state store and server-side OIDC client of oidc-client-ts. *)
(*                                                                         *)
(* A string is a finite sequence of symbols.  The literals of the source   *)
(* ("oidc:", "session:", "*", "{", ...) are single symbols, so that string *)
(* concatenation, substring and glob matching are computed on sequences.   *)
(* The backend is one Redis database shared by every store instance: a     *)
(* map from backend key to a value and a remaining time to live.           *)
(***************************************************************************)
EXTENDS Integers, Sequences, FiniteSets, TLC

VARIABLES
    db,        \* the Redis database: backend key -> [val, ttl (seconds left)]
    meta,      \* history of every backend key ever written (not program state)
    pc,        \* position of each caller inside its asynchronous operation
    loc,       \* the locals of the operation each caller is running
    ret,       \* what the last operation of each caller returned or threw
    failures,  \* number of backend calls that have failed so far
    calls      \* the backend calls the operation of each caller has issued

vars == <<db, meta, pc, loc, ret, failures, calls>>

(***************************************************************************)
(* Bounds of the model.                                                    *)
(***************************************************************************)
MaxFailures == 1
TickStep == 1800

Procs == {1, 2}

(***************************************************************************)
(* Program constants.                                                      *)
(***************************************************************************)
DefaultTtl == 3600
DefaultPrefix == <<"oidc:">>
SessionNs == <<"session:">>

\* JavaScript null: the symbol "null" is in no alphabet, so no string equals it.
Null == <<"null">>

\* An optional number argument that is not given (undefined).
NoTtl == -1

\* !x for a string-or-null x: null and the empty string are falsy.
Falsy(x) == x = Null \/ x = <<>>

(***************************************************************************)
(* The backend client (RedisClientLike).                                   *)
(***************************************************************************)
RECURSIVE GlobMatch(_, _)
GlobMatch(pattern, s) ==
    IF pattern = <<>> THEN s = <<>>
    ELSE IF Head(pattern) = "*"
         THEN GlobMatch(Tail(pattern), s)
              \/ (s # <<>> /\ GlobMatch(pattern, Tail(s)))
         ELSE /\ s # <<>>
              /\ Head(pattern) = Head(s)
              /\ GlobMatch(Tail(pattern), Tail(s))

RedisSetEx(d, bk, seconds, value) ==
    [k \in DOMAIN d \cup {bk} |->
        IF k = bk THEN [val |-> value, ttl |-> seconds] ELSE d[k]]

RedisGet(d, bk) == IF bk \in DOMAIN d THEN d[bk].val ELSE Null

RedisDel(d, bks) == [k \in DOMAIN d \ bks |-> d[k]]

RedisKeys(d, pattern) == {k \in DOMAIN d : GlobMatch(pattern, k)}

RedisExpire(d, bk, seconds) ==
    IF bk \in DOMAIN d THEN [d EXCEPT ![bk].ttl = seconds] ELSE d

RedisExpireReply(d, bk) == bk \in DOMAIN d

RedisExists(d, bk) == IF bk \in DOMAIN d THEN 1 ELSE 0

\* Faulty backend: an entry whose time is up stays, emptied, until it is
\* deleted.
RedisAgeLazy(d, seconds) ==
    [k \in DOMAIN d |->
        IF d[k].ttl < 0 THEN d[k]
        ELSE IF d[k].ttl > seconds THEN [d[k] EXCEPT !.ttl = @ - seconds]
        ELSE [val |-> <<>>, ttl |-> -1]]

\* The entries that survive `seconds` more seconds, each that much older; an
\* entry with no expiry (ttl -1, as TTL reports it) stays as it is.
RedisAge(d, seconds) ==
    [k \in {x \in DOMAIN d : d[x].ttl < 0 \/ d[x].ttl > seconds} |->
        IF d[k].ttl < 0 THEN d[k] ELSE [d[k] EXCEPT !.ttl = @ - seconds]]

(***************************************************************************)
(* RedisStateStore.  A configuration is a record with the fields that are  *)
(* given; `x || d` takes d when x is not given and when x is falsy (the     *)
(* empty string, 0).                                                       *)
(***************************************************************************)
RedisStateStore(config) ==
    [prefix |-> IF "keyPrefix" \in DOMAIN config /\ config.keyPrefix # <<>>
                THEN config.keyPrefix ELSE DefaultPrefix,
     ttl    |-> IF "ttl" \in DOMAIN config /\ config.ttl # 0
                THEN config.ttl ELSE DefaultTtl]

\* The configuration with no field given.
NoConfig == [f \in {} |-> 0]

\* The store instances, by name: A is configured with nothing, B with a
\* prefix and a ttl, C with the empty prefix and the ttl 0.
StoreConfig ==
    [A |-> NoConfig,
     B |-> [keyPrefix |-> <<"oidc:", "demo:">>, ttl |-> 1800],
     C |-> [keyPrefix |-> <<>>, ttl |-> 0]]

\* The store instances that share the backend.
StoreIds == {"A", "B"}

Store(id) == RedisStateStore(StoreConfig[id])

PrefixedKey(id, key) == Store(id).prefix \o key

Pattern(id) == Store(id).prefix \o <<"*">>

\* key.substring(this._prefix.length)
StripPrefix(id, bk) == SubSeq(bk, Len(Store(id).prefix) + 1, Len(bk))

\* What each method returns when its backend calls succeed in database d.
\* Faulty get: `reply || null`, which turns the empty string into null.
GetResultOrNull(d, id, key) ==
    IF Falsy(RedisGet(d, PrefixedKey(id, key))) THEN Null
    ELSE RedisGet(d, PrefixedKey(id, key))

GetResult(d, id, key) == RedisGet(d, PrefixedKey(id, key))

\* Faulty exists: the key is looked up without the prefix.
ExistsResultUnprefixed(d, id, key) == RedisExists(d, key) = 1

ExistsResult(d, id, key) == RedisExists(d, PrefixedKey(id, key)) = 1

GetAllKeysResult(d, id) ==
    {StripPrefix(id, bk) : bk \in RedisKeys(d, Pattern(id))}

\* What each method leaves in the database when its backend calls succeed.
\* Faulty set: a plain SET, which leaves the entry with no expiry.
SetEffectNoExpiry(d, id, key, value) ==
    RedisSetEx(d, PrefixedKey(id, key), -1, value)

\* Faulty remove: del of the key without the prefix.
RemoveEffectUnprefixed(d, id, key) == RedisDel(d, {key})

\* Faulty set: the entry is written under the prefix alone.
SetEffectNoKey(d, id, key, value) ==
    RedisSetEx(d, Store(id).prefix, Store(id).ttl, value)

\* Faulty set: SET with KEEPTTL on an entry that exists.
SetEffectKeepTtl(d, id, key, value) ==
    IF PrefixedKey(id, key) \in DOMAIN d
    THEN [d EXCEPT ![PrefixedKey(id, key)].val = value]
    ELSE RedisSetEx(d, PrefixedKey(id, key), Store(id).ttl, value)

SetEffect(d, id, key, value) ==
    RedisSetEx(d, PrefixedKey(id, key), Store(id).ttl, value)

RemoveEffect(d, id, key) == RedisDel(d, {PrefixedKey(id, key)})

\* Faulty expire: the entry is written again, with an empty value.
ExpireEffectSetEx(d, id, key, seconds) ==
    IF PrefixedKey(id, key) \in DOMAIN d
    THEN RedisSetEx(d, PrefixedKey(id, key), seconds, <<>>)
    ELSE d

ExpireEffect(d, id, key, seconds) ==
    RedisExpire(d, PrefixedKey(id, key), seconds)

\* Faulty flushAll: del of the first enumerated key only.
FlushEffectFirstKey(d, keys) ==
    RedisDel(d, IF keys = {} THEN {} ELSE {CHOOSE k \in keys : TRUE})

FlushEffect(d, keys) == RedisDel(d, keys)

\* Faulty flushAll: del is called whatever the enumeration found.
FlushNeedsDelAlways(keys) == TRUE

\* flushAll: `if (keys.length > 0)`.
FlushNeedsDel(keys) == Cardinality(keys) > 0

\* Faulty expire: a reply of false (no such key) is thrown as an error.
ExpireOutcomeStrict(reply) == IF reply THEN "" ELSE "KeyNotFoundError"

\* expire: a reply of false is logged as a warning, and expire returns.
ExpireOutcome(reply) == ""

\* Faulty remove: the value only when del reports it deleted the key.
RemoveReturnIfDeleted(value, deleted) == IF deleted = 0 THEN Null ELSE value

\* remove returns the value it read; the reply of del (the number of keys
\* deleted) is not looked at.
RemoveReturn(value, deleted) == value

(***************************************************************************)
(* History of the backend keys, kept beside the program to state what the  *)
(* program is meant to do: who wrote the entry last, the time to live it   *)
(* was given, how long ago, and how it ended.                              *)
(***************************************************************************)
MetaWrite(m, bk, id, kind, seconds) ==
    [k \in DOMAIN m \cup {bk} |->
        IF k = bk
        THEN [by |-> id, kind |-> kind, given |-> seconds, age |-> 0,
              status |-> "live"]
        ELSE m[k]]

MetaExpire(m, d, bk, seconds) ==
    IF bk \in DOMAIN d
    THEN [m EXCEPT ![bk].given = seconds, ![bk].age = 0]
    ELSE m

MetaEnd(m, d, bks, how) ==
    [k \in DOMAIN m |->
        IF k \in bks /\ k \in DOMAIN d
        THEN [m[k] EXCEPT !.status = how, !.given = 0, !.age = 0]
        ELSE m[k]]

MetaAge(m, d, seconds) ==
    [k \in DOMAIN m |->
        IF k \notin DOMAIN d THEN m[k]
        ELSE IF d[k].ttl < 0 \/ d[k].ttl > seconds
             THEN [m[k] EXCEPT !.age = @ + seconds]
        ELSE [m[k] EXCEPT !.status = "expired", !.given = 0, !.age = 0]]

(***************************************************************************)
(* Callers.  Every backend call is one step; a caller is suspended between *)
(* the backend calls of one operation, and any backend call may fail.      *)
(***************************************************************************)
NoEntry == [val |-> Null, given |-> 0]

\* The entry of backend key bk as a caller can tell it apart: its value and
\* the time to live it was last given.
Snapshot(d, m, bk) ==
    IF bk \in DOMAIN d THEN [val |-> d[bk].val, given |-> m[bk].given]
    ELSE NoEntry

\* How the history of backend key bk stands: never written, live, or ended.
SawOf(m, bk) == IF bk \in DOMAIN m THEN m[bk].status ELSE "never"

\* What a set of store id finds under backend key bk: "retimed" is a live
\* entry of the same store whose time to live was changed by expire.
SetSaw(m, bk, id) ==
    IF /\ SawOf(m, bk) = "live" /\ m[bk].by = id
       /\ m[bk].given # Store(id).ttl
    THEN "retimed" ELSE SawOf(m, bk)

NoLoc == [op |-> "none", st |-> "A", key |-> <<>>, value |-> Null,
          keys |-> {}, ttl |-> 0, saw |-> "", prior |-> NoEntry]

NoRet == [op |-> "none", st |-> "A", key |-> <<>>, arg |-> Null, out |-> Null,
          flag |-> FALSE, keys |-> {}, err |-> "", saw |-> "", ttl |-> NoTtl]

\* The result of operation op of store id on key: the string or null it
\* returns (out), the boolean (flag) or the key list (keys), or the error.
Ret(op, id, key, out, flag, keys, err) ==
    [op |-> op, st |-> id, key |-> key, arg |-> Null, out |-> out,
     flag |-> flag, keys |-> keys, err |-> err, saw |-> "", ttl |-> NoTtl]

Init ==
    /\ db = <<>>
    /\ meta = <<>>
    /\ pc = [p \in Procs |-> "idle"]
    /\ loc = [p \in Procs |-> NoLoc]
    /\ ret = [p \in Procs |-> NoRet]
    /\ failures = 0
    /\ calls = [p \in Procs |-> <<>>]

\* The backend call that operation op issues at position at.
BackendCall(at, op) ==
    CASE at = "idle" /\ op \in {"set", "storeUserSession",
                                "createSigninRequest"} -> <<"setEx">>
      [] at = "idle" /\ op \in {"get", "remove", "getUserSession",
                                "removeUserSession", "signinCallback"}
           -> <<"get">>
      [] at = "idle" /\ op \in {"getAllKeys", "flushAll",
                                "cleanupExpiredState"} -> <<"keys">>
      [] at = "cleanup_get" -> <<"get">>
      [] at = "idle" /\ op = "expire" -> <<"expire">>
      [] at = "idle" /\ op \in {"exists", "hasUserSession"} -> <<"exists">>
      [] at \in {"remove_del", "flush_del", "signin_del",
                 "remove_session_del"} -> <<"del">>
      [] at = "store_expire" -> <<"expire">>
      [] OTHER -> <<>>

\* Faulty client: every backend call is issued a second time.
IssuedTwice(p, op) ==
    (IF pc[p] = "idle" THEN <<>> ELSE calls[p])
    \o BackendCall(pc[p], op) \o BackendCall(pc[p], op)

\* The backend calls operation op of caller p has issued, the call of this
\* step included: every await of a method issues one call, once.
Issued(p, op) ==
    (IF pc[p] = "idle" THEN <<>> ELSE calls[p]) \o BackendCall(pc[p], op)

\* The operation of caller p ends with result r.
Done(p, r) ==
    /\ ret' = [ret EXCEPT ![p] = r]
    /\ pc' = [pc EXCEPT ![p] = "idle"]
    /\ loc' = [loc EXCEPT ![p] = NoLoc]
    /\ calls' = [calls EXCEPT ![p] = Issued(p, r.op)]

\* Caller p is suspended at position at with locals l.
Suspend(p, at, l) ==
    /\ ret' = [ret EXCEPT ![p] = NoRet]
    /\ pc' = [pc EXCEPT ![p] = at]
    /\ loc' = [loc EXCEPT ![p] = l]
    /\ calls' = [calls EXCEPT ![p] = Issued(p, l.op)]

\* Faulty method: the error of the backend is caught and null returned.
ThrowSwallowed(p, op, id, key) ==
    /\ failures < MaxFailures
    /\ failures' = failures + 1
    /\ Done(p, Ret(op, id, key, Null, FALSE, {}, ""))
    /\ UNCHANGED <<db, meta>>

\* Faulty method: the key is deleted although the backend call rejected.
ThrowAfterDel(p, op, id, key) ==
    /\ failures < MaxFailures
    /\ failures' = failures + 1
    /\ Done(p, Ret(op, id, key, Null, FALSE, {}, "BackendError"))
    /\ db' = RedisDel(db, {PrefixedKey(id, key)})
    /\ meta' = MetaEnd(meta, db, {PrefixedKey(id, key)}, "removed")

\* A backend call of caller p rejects: the operation throws the error on.
Throw(p, op, id, key) ==
    /\ failures < MaxFailures
    /\ failures' = failures + 1
    /\ Done(p, Ret(op, id, key, Null, FALSE, {}, "BackendError"))
    /\ UNCHANGED <<db, meta>>

Set(p, id, key, value) ==
    /\ pc[p] = "idle"
    /\ \/ /\ db' = SetEffect(db, id, key, value)
          /\ meta' = MetaWrite(meta, PrefixedKey(id, key), id, "set",
                               Store(id).ttl)
          /\ Done(p, [Ret("set", id, key, Null, FALSE, {}, "")
                          EXCEPT !.arg = value,
                                 !.saw = SetSaw(meta, PrefixedKey(id, key),
                                                id)])
          /\ UNCHANGED failures
       \/ Throw(p, "set", id, key)

Get(p, id, key) ==
    /\ pc[p] = "idle"
    /\ \/ /\ Done(p, [Ret("get", id, key, GetResult(db, id, key), FALSE, {},
                          "")
                      EXCEPT !.saw = SawOf(meta, PrefixedKey(id, key))])
          /\ UNCHANGED <<db, meta, failures>>
       \/ Throw(p, "get", id, key)

RemoveGet(p, id, key) ==
    /\ pc[p] = "idle"
    /\ \/ /\ Suspend(p, "remove_del",
                     [NoLoc EXCEPT !.op = "remove", !.st = id, !.key = key,
                                   !.value = GetResult(db, id, key),
                                   !.saw = SawOf(meta,
                                                 PrefixedKey(id, key))])
          /\ UNCHANGED <<db, meta, failures>>
       \/ Throw(p, "remove", id, key)

RemoveDel(p) ==
    /\ pc[p] = "remove_del"
    /\ loc[p].op = "remove"
    /\ LET id == loc[p].st
           key == loc[p].key
           deleted == RedisExists(db, PrefixedKey(id, key))
       IN  \/ /\ db' = RemoveEffect(db, id, key)
              /\ meta' = MetaEnd(meta, db, {PrefixedKey(id, key)}, "removed")
              /\ Done(p, [Ret("remove", id, key,
                              RemoveReturn(loc[p].value, deleted), FALSE, {},
                              "") EXCEPT !.saw = loc[p].saw])
              /\ UNCHANGED failures
           \/ Throw(p, "remove", id, key)

GetAllKeys(p, id) ==
    /\ pc[p] = "idle"
    /\ \/ /\ Done(p, Ret("getAllKeys", id, <<>>, Null, FALSE,
                         GetAllKeysResult(db, id), ""))
          /\ UNCHANGED <<db, meta, failures>>
       \/ Throw(p, "getAllKeys", id, <<>>)

Expire(p, id, key, seconds) ==
    /\ pc[p] = "idle"
    /\ \/ /\ db' = ExpireEffect(db, id, key, seconds)
          /\ meta' = MetaExpire(meta, db, PrefixedKey(id, key), seconds)
          /\ Done(p, [Ret("expire", id, key, Null,
                          RedisExpireReply(db, PrefixedKey(id, key)), {},
                          ExpireOutcome(RedisExpireReply(db,
                                            PrefixedKey(id, key))))
                      EXCEPT !.saw = SawOf(meta, PrefixedKey(id, key))])
          /\ UNCHANGED failures
       \/ Throw(p, "expire", id, key)

Exists(p, id, key) ==
    /\ pc[p] = "idle"
    /\ \/ /\ Done(p, [Ret("exists", id, key, Null,
                          ExistsResult(db, id, key), {}, "")
                      EXCEPT !.saw = SawOf(meta, PrefixedKey(id, key))])
          /\ UNCHANGED <<db, meta, failures>>
       \/ Throw(p, "exists", id, key)

FlushKeys(p, id) ==
    /\ pc[p] = "idle"
    /\ LET keys == RedisKeys(db, Pattern(id))
       IN  \/ /\ IF FlushNeedsDel(keys)
                 THEN Suspend(p, "flush_del",
                              [NoLoc EXCEPT !.op = "flushAll", !.st = id,
                                            !.keys = keys])
                 ELSE Done(p, Ret("flushAll", id, <<>>, Null, FALSE, {}, ""))
              /\ UNCHANGED <<db, meta, failures>>
           \/ Throw(p, "flushAll", id, <<>>)

FlushDel(p) ==
    /\ pc[p] = "flush_del"
    /\ \/ /\ db' = FlushEffect(db, loc[p].keys)
          /\ meta' = MetaEnd(meta, db, loc[p].keys, "flushed")
          /\ Done(p, Ret("flushAll", loc[p].st, <<>>, Null, FALSE,
                         loc[p].keys, ""))
          /\ UNCHANGED failures
       \/ Throw(p, "flushAll", loc[p].st, <<>>)

\* TickStep seconds pass: the backend drops the entries whose time is up.
Tick ==
    /\ DOMAIN db # {}
    /\ db' = RedisAge(db, TickStep)
    /\ meta' = MetaAge(meta, db, TickStep)
    /\ UNCHANGED <<pc, loc, ret, failures, calls>>

(***************************************************************************)
(* The store on its own: one caller at a time runs the methods of the      *)
(* store instances on keys and values of its choice.                       *)
(***************************************************************************)
SeqProcs == {1}

StoreKeys ==
    [A |-> {<<"a">>, <<"demo:", "a">>}, B |-> {<<"a">>}, C |-> {<<"a">>}]

Values == {<<>>, <<":", "v">>}

ExpireSecs == {1800, 3600}

Next ==
    \/ \E p \in SeqProcs, id \in StoreIds : \E key \in StoreKeys[id] :
          \/ \E value \in Values : Set(p, id, key, value)
          \/ Get(p, id, key)
          \/ RemoveGet(p, id, key)
          \/ Exists(p, id, key)
          \/ \E seconds \in ExpireSecs : Expire(p, id, key, seconds)
    \/ \E p \in SeqProcs, id \in StoreIds :
          \/ GetAllKeys(p, id)
          \/ FlushKeys(p, id)
    \/ \E p \in SeqProcs : RemoveDel(p) \/ FlushDel(p)
    \/ Tick

Spec == Init /\ [][Next]_vars

(***************************************************************************)
(* Concurrent callers of one store: each sets a key of its own, and reads. *)
(***************************************************************************)
ConcKeys == <<<<"a">>, <<"b">>>>

NextConc ==
    \E p \in Procs :
        \/ \E value \in Values : Set(p, "A", ConcKeys[p], value)
        \/ Get(p, "A", ConcKeys[p])
        \/ GetAllKeys(p, "A")

SpecConc == Init /\ [][NextConc]_vars

(***************************************************************************)
(* The constructor: stores of every configuration set and get their keys.  *)
(***************************************************************************)
ConfigIds == DOMAIN StoreConfig

NextConfig ==
    \/ \E p \in SeqProcs, id \in ConfigIds : \E key \in StoreKeys[id] :
          \/ \E value \in Values : Set(p, id, key, value)
          \/ Get(p, id, key)
    \/ Tick

SpecConfig == Init /\ [][NextConfig]_vars

(***************************************************************************)
(* JSON texts.  JSON.stringify writes "{", then the name and the value of  *)
(* every member that is not undefined, then "}"; JSON.parse reads them     *)
(* back and throws on any other text.                                      *)
(***************************************************************************)
Undefined == "undefined"

RECURSIVE JsonMembers(_, _)
JsonMembers(obj, names) ==
    IF names = <<>> THEN <<>>
    ELSE (IF obj[Head(names)] = Undefined THEN <<>>
          ELSE <<Head(names), obj[Head(names)]>>)
         \o JsonMembers(obj, Tail(names))

JsonStringify(obj, names) == <<"{">> \o JsonMembers(obj, names) \o <<"}">>

IsJson(text) ==
    /\ text # Null
    /\ Len(text) >= 2 /\ Len(text) % 2 = 0
    /\ text[1] = "{" /\ text[Len(text)] = "}"

\* JSON.parse(text)[name]
JsonGet(text, name) ==
    LET at == {i \in 1 .. Len(text) - 1 : i % 2 = 0 /\ text[i] = name}
    IN  IF at = {} THEN Undefined
        ELSE text[(CHOOSE i \in at : \A j \in at : j <= i) + 1]

(***************************************************************************)
(* ServerSideUserManager: the sessions.                                    *)
(***************************************************************************)
\* The store of the ServerSideOidcClient, built from its redisConfig.
MainStore == "A"

UserFields ==
    <<"access_token", "token_type", "id_token", "refresh_token", "scope",
      "profile", "expires_at", "state">>

MkUser(token, state) ==
    [access_token |-> token, token_type |-> "Bearer", id_token |-> "idt",
     refresh_token |-> Undefined, scope |-> "openid", profile |-> "sub",
     expires_at |-> "exp", state |-> state]

UserJson(user) == JsonStringify(user, UserFields)

\* `session:${sessionKey}`
SessionKey(s) == SessionNs \o s

StoreSessionSet(p, s, user, ttl) ==
    /\ pc[p] = "idle"
    /\ LET bk == PrefixedKey(MainStore, SessionKey(s))
       IN  \/ /\ db' = SetEffect(db, MainStore, SessionKey(s), UserJson(user))
              /\ meta' = MetaWrite(meta, bk, MainStore, "session",
                                   Store(MainStore).ttl)
              /\ IF ttl # NoTtl /\ ttl # 0
                 THEN Suspend(p, "store_expire",
                              [NoLoc EXCEPT !.op = "storeUserSession",
                                            !.st = MainStore, !.key = s,
                                            !.ttl = ttl,
                                            !.prior = Snapshot(db, meta, bk)])
                 ELSE Done(p, [Ret("storeUserSession", MainStore, s, Null,
                                   FALSE, {}, "") EXCEPT !.ttl = ttl])
              /\ UNCHANGED failures
           \/ Throw(p, "storeUserSession", MainStore, s)

StoreSessionExpire(p) ==
    /\ pc[p] = "store_expire"
    /\ LET s == loc[p].key
           bk == PrefixedKey(MainStore, SessionKey(s))
       IN  \/ /\ db' = ExpireEffect(db, MainStore, SessionKey(s), loc[p].ttl)
              /\ meta' = MetaExpire(meta, db, bk, loc[p].ttl)
              /\ Done(p, [Ret("storeUserSession", MainStore, s, Null, FALSE,
                              {}, "") EXCEPT !.ttl = loc[p].ttl])
              /\ UNCHANGED failures
           \/ Throw(p, "storeUserSession", MainStore, s)

\* Faulty constructor: state is read from the member userState.
UserFromUserState(userData) ==
    [f \in DOMAIN userData |->
        IF f = "state" THEN Undefined ELSE userData[f]]

\* new User(userData): the user with the members of the parsed object.
User(userData) == [f \in DOMAIN userData |-> userData[f]]

\* JSON.parse(userJson), as far as the constructor of User reads it.
UserData(userJson) ==
    [f \in {UserFields[i] : i \in DOMAIN UserFields} |->
        JsonGet(userJson, f)]

\* A user object that a method returns, as opposed to null.
Found(user) == <<"User", user>>

\* What getUserSession returns for the string get gave it: null for a
\* falsy string and when JSON.parse throws, the new User otherwise.
GetUserSessionResult(userJson) ==
    IF Falsy(userJson) THEN Null
    ELSE IF ~IsJson(userJson) THEN Null
    ELSE Found(User(UserData(userJson)))

GetUserSession(p, s) ==
    /\ pc[p] = "idle"
    /\ \/ /\ LET userJson == GetResult(db, MainStore, SessionKey(s))
             IN  Done(p, [Ret("getUserSession", MainStore, s,
                              GetUserSessionResult(userJson), FALSE, {}, "")
                          EXCEPT !.arg = userJson])
          /\ UNCHANGED <<db, meta, failures>>
       \/ Throw(p, "getUserSession", MainStore, s)

HasUserSession(p, s) ==
    /\ pc[p] = "idle"
    /\ \/ /\ Done(p, [Ret("hasUserSession", MainStore, s, Null,
                          ExistsResult(db, MainStore, SessionKey(s)), {}, "")
                      EXCEPT !.saw = SawOf(meta, PrefixedKey(MainStore,
                                                             SessionKey(s)))])
          /\ UNCHANGED <<db, meta, failures>>
       \/ Throw(p, "hasUserSession", MainStore, s)

\* Faulty removeUserSession: a session that is not there is an error.
RemoveUserSessionOutcomeStrict(removed) ==
    IF Falsy(removed) THEN "SessionNotFoundError" ELSE ""

\* removeUserSession awaits remove and drops what it returns.
RemoveUserSessionOutcome(removed) == ""

RemoveUserSessionGet(p, s) ==
    /\ pc[p] = "idle"
    /\ \/ /\ Suspend(p, "remove_session_del",
                     [NoLoc EXCEPT !.op = "removeUserSession",
                                   !.st = MainStore, !.key = s,
                                   !.value = GetResult(db, MainStore,
                                                       SessionKey(s)),
                                   !.saw = SawOf(meta,
                                              PrefixedKey(MainStore,
                                                          SessionKey(s)))])
          /\ UNCHANGED <<db, meta, failures>>
       \/ Throw(p, "removeUserSession", MainStore, s)

RemoveUserSessionDel(p) ==
    /\ pc[p] = "remove_session_del"
    /\ LET s == loc[p].key
           bk == PrefixedKey(MainStore, SessionKey(s))
           removed == RemoveReturn(loc[p].value, RedisExists(db, bk))
       IN  \/ /\ db' = RemoveEffect(db, MainStore, SessionKey(s))
              /\ meta' = MetaEnd(meta, db, {bk}, "removed")
              /\ Done(p, [Ret("removeUserSession", MainStore, s, Null,
                              FALSE, {}, RemoveUserSessionOutcome(removed))
                          EXCEPT !.saw = loc[p].saw])
              /\ UNCHANGED failures
           \/ Throw(p, "removeUserSession", MainStore, s)

(***************************************************************************)
(* The protocol engine (OidcClient) on the store of the client.            *)
(***************************************************************************)
FlowFields == <<"id", "data", "code_verifier", "scope">>

\* Faulty engine: the caller data is left out of the stored state.
FlowJsonNoData(id, data) ==
    JsonStringify([id |-> Head(id), data |-> Undefined,
                   code_verifier |-> "cv", scope |-> "openid"], FlowFields)

\* SigninState.toStorageString() of the state with this id and caller data.
FlowJson(id, data) ==
    JsonStringify([id |-> Head(id), data |-> data, code_verifier |-> "cv",
                   scope |-> "openid"], FlowFields)

\* The id of the state read back from storage: a text with no id gets a
\* fresh one.
StateId(text) ==
    IF JsonGet(text, "id") = Undefined THEN <<"uuid">>
    ELSE <<JsonGet(text, "id")>>

\* createSigninRequest: the engine makes a state with a fresh id and sets it.
CreateSigninRequest(p, id, data) ==
    /\ pc[p] = "idle"
    /\ PrefixedKey(MainStore, id) \notin DOMAIN meta
    /\ \/ /\ db' = SetEffect(db, MainStore, id, FlowJson(id, data))
          /\ meta' = MetaWrite(meta, PrefixedKey(MainStore, id), MainStore,
                               "flow", Store(MainStore).ttl)
          /\ Done(p, [Ret("createSigninRequest", MainStore, id, Null, FALSE,
                          {}, "") EXCEPT !.arg = <<data>>])
          /\ UNCHANGED failures
       \/ Throw(p, "createSigninRequest", MainStore, id)

\* signinCallback, first backend call: the get of stateStore.remove(state).
SigninGet(p, state) ==
    /\ pc[p] = "idle"
    /\ \/ /\ Suspend(p, "signin_del",
                     [NoLoc EXCEPT !.op = "signinCallback", !.st = MainStore,
                                   !.key = state,
                                   !.value = GetResult(db, MainStore, state),
                                   !.saw = SawOf(meta,
                                              PrefixedKey(MainStore, state))])
          /\ UNCHANGED <<db, meta, failures>>
       \/ Throw(p, "signinCallback", MainStore, state)

\* Faulty engine: an expired state is reported apart from a missing one.
SigninOutcomeTellsExpiry(stored, state) ==
    IF Falsy(stored)
    THEN (IF SawOf(meta, PrefixedKey(MainStore, state)) = "expired"
          THEN "StateExpiredError" ELSE "StateNotFoundError")
    ELSE IF ~IsJson(stored) THEN "SyntaxError"
    ELSE IF StateId(stored) # state THEN "StateMismatchError"
    ELSE "exchange"

\* What the engine does with the string remove returned, for the callback
\* with this state parameter.
SigninOutcome(stored, state) ==
    IF Falsy(stored) THEN "StateNotFoundError"
    ELSE IF ~IsJson(stored) THEN "SyntaxError"
    ELSE IF StateId(stored) # state THEN "StateMismatchError"
    ELSE "exchange"

\* signinCallback, second backend call: the del of remove, then the checks.
SigninDel(p) ==
    /\ pc[p] = "signin_del"
    /\ LET state == loc[p].key
           bk == PrefixedKey(MainStore, state)
           stored == RemoveReturn(loc[p].value, RedisExists(db, bk))
           outcome == SigninOutcome(stored, state)
       IN  \/ /\ db' = RemoveEffect(db, MainStore, state)
              /\ meta' = MetaEnd(meta, db, {bk}, "removed")
              /\ IF outcome = "exchange"
                 THEN /\ pc' = [pc EXCEPT ![p] = "signin_token"]
                      /\ loc' = [loc EXCEPT ![p].value = stored]
                      /\ calls' = [calls EXCEPT
                                      ![p] = Issued(p, "signinCallback")]
                      /\ UNCHANGED ret
                 ELSE Done(p, [Ret("signinCallback", MainStore, state, Null,
                                   FALSE, {}, outcome)
                               EXCEPT !.saw = loc[p].saw])
              /\ UNCHANGED failures
           \/ /\ Throw(p, "signinCallback", MainStore, state)

\* signinCallback, the code exchange at the authorization server, which
\* accepts the code or not; buildUser carries the caller data as user.state.
SigninToken(p) ==
    /\ pc[p] = "signin_token"
    /\ \E accepted \in BOOLEAN :
          Done(p, [Ret("signinCallback", MainStore, loc[p].key,
                       IF accepted THEN <<JsonGet(loc[p].value, "data")>>
                       ELSE Null,
                       FALSE, {},
                       IF accepted THEN "" ELSE "TokenExchangeError")
                   EXCEPT !.saw = loc[p].saw])
    /\ UNCHANGED <<db, meta, failures>>

\* Faulty sweep: an entry is removed once it is a quarter of an hour old.
SweepRemovesOld(m, bk) == m[bk].age >= 900

\* The sweep of the engine removes the entries whose time is up, which the
\* backend has dropped by itself.
SweepRemoves(m, bk) == m[bk].age >= m[bk].given

\* cleanupExpiredState, first backend call: the sweep enumerates the keys.
CleanupKeys(p) ==
    /\ pc[p] = "idle"
    /\ LET keys == GetAllKeysResult(db, MainStore)
       IN  \/ /\ IF keys # {}
                 THEN Suspend(p, "cleanup_get",
                              [NoLoc EXCEPT !.op = "cleanupExpiredState",
                                            !.st = MainStore, !.keys = keys])
                 ELSE Done(p, Ret("cleanupExpiredState", MainStore, <<>>,
                                  Null, FALSE, {}, ""))
              /\ UNCHANGED <<db, meta, failures>>
           \/ Throw(p, "cleanupExpiredState", MainStore, <<>>)

\* cleanupExpiredState, the sweep reads the next key it enumerated and
\* removes the entry if it is one to remove.
CleanupGet(p) ==
    /\ pc[p] = "cleanup_get"
    /\ \E key \in loc[p].keys :
          LET bk == PrefixedKey(MainStore, key)
              rest == loc[p].keys \ {key}
              removes == bk \in DOMAIN db /\ SweepRemoves(meta, bk)
          IN  \/ /\ db' = IF removes THEN RemoveEffect(db, MainStore, key)
                           ELSE db
                 /\ meta' = IF removes
                            THEN MetaEnd(meta, db, {bk}, "removed")
                            ELSE meta
                 /\ IF rest # {}
                    THEN Suspend(p, "cleanup_get",
                                 [loc[p] EXCEPT !.keys = rest])
                    ELSE Done(p, Ret("cleanupExpiredState", MainStore, <<>>,
                                     Null, FALSE, {}, ""))
                 /\ UNCHANGED failures
              \/ Throw(p, "cleanupExpiredState", MainStore, <<>>)

(***************************************************************************)
(* The authentication flow: a caller begins attempts and stores sessions,  *)
(* and callbacks, forged ones included, are completed by two callers.      *)
(***************************************************************************)
AuthProcs == {1}

FlowIds == {<<"a">>, <<"b">>}

Payloads == {"/x"}

SessionIds == {<<"a">>}

SessionUsers == {MkUser("t1", "/x"), MkUser("t2", "/x")}

TtlArgs == {NoTtl, 1800}

\* The state parameter of a callback URL: an id of the engine or any string.
CallbackStates == FlowIds \cup {SessionKey(s) : s \in SessionIds}

NextAuth ==
    \/ \E p \in AuthProcs :
          \/ \E id \in FlowIds, data \in Payloads :
                CreateSigninRequest(p, id, data)
          \/ \E s \in SessionIds, user \in SessionUsers, ttl \in TtlArgs :
                StoreSessionSet(p, s, user, ttl)
          \/ StoreSessionExpire(p)
    \/ \E p \in Procs :
          \/ \E state \in CallbackStates : SigninGet(p, state)
          \/ SigninDel(p)
          \/ SigninToken(p)
    \/ Tick

SpecAuth == Init /\ [][NextAuth]_vars

(***************************************************************************)
(* Attempts alone: two callers begin attempts with caller data of their    *)
(* choice and complete callbacks.                                          *)
(***************************************************************************)
FlowPayloads == {"/x", "/y"}

NextFlow ==
    \/ \E p \in Procs :
          \/ \E id \in FlowIds, data \in FlowPayloads :
                CreateSigninRequest(p, id, data)
          \/ \E state \in FlowIds : SigninGet(p, state)
          \/ SigninDel(p)
          \/ SigninToken(p)
    \/ Tick

SpecFlow == Init /\ [][NextFlow]_vars

(***************************************************************************)
(* The sweep: one caller begins attempts, stores sessions, completes       *)
(* callbacks and runs cleanupExpiredState, as time passes.                 *)
(***************************************************************************)
NextSweep ==
    \/ \E p \in SeqProcs :
          \/ \E id \in FlowIds, data \in Payloads :
                CreateSigninRequest(p, id, data)
          \/ \E s \in SessionIds, user \in SessionUsers :
                StoreSessionSet(p, s, user, NoTtl)
          \/ \E state \in FlowIds : SigninGet(p, state)
          \/ SigninDel(p)
          \/ SigninToken(p)
          \/ CleanupKeys(p)
          \/ CleanupGet(p)
    \/ Tick

SpecSweep == Init /\ [][NextSweep]_vars

(***************************************************************************)
(* The sessions and the store under them: one caller stores and reads      *)
(* sessions, and runs the methods of the store of the client on the        *)
(* session keys, with any string as the value.                             *)
(***************************************************************************)
SessionProcs == {1}

StoredStrings == Values \cup {<<"{", "}">>}

SessionTtlArgs == {NoTtl, 0, 1800}

NextSession ==
    \/ \E p \in SessionProcs, s \in SessionIds :
          \/ \E user \in SessionUsers, ttl \in SessionTtlArgs :
                StoreSessionSet(p, s, user, ttl)
          \/ GetUserSession(p, s)
          \/ HasUserSession(p, s)
          \/ RemoveUserSessionGet(p, s)
          \/ \E value \in StoredStrings :
                Set(p, MainStore, SessionKey(s), value)
          \/ Get(p, MainStore, SessionKey(s))
          \/ RemoveGet(p, MainStore, SessionKey(s))
          \/ Exists(p, MainStore, SessionKey(s))
          \/ \E seconds \in ExpireSecs :
                Expire(p, MainStore, SessionKey(s), seconds)
    \/ \E p \in SessionProcs :
          \/ StoreSessionExpire(p)
          \/ RemoveUserSessionDel(p)
          \/ GetAllKeys(p, MainStore)
          \/ FlushKeys(p, MainStore)
          \/ RemoveDel(p)
          \/ FlushDel(p)
    \/ Tick

SpecSession == Init /\ [][NextSession]_vars

(***************************************************************************)
(* Concurrent callers on one key of one store: each sets it and removes    *)
(* it, the two backend calls of remove taken apart.                        *)
(***************************************************************************)
RaceKey == <<"a">>

NextRace ==
    \/ \E p \in Procs :
          \/ \E value \in Values : Set(p, MainStore, RaceKey, value)
          \/ RemoveGet(p, MainStore, RaceKey)
          \/ RemoveDel(p)
    \/ Tick

SpecRace == Init /\ [][NextRace]_vars

(***************************************************************************)
(* Concurrent callers storing a session under one identifier: each stores  *)
(* a user of its own, with or without a time to live.                      *)
(***************************************************************************)
RaceUsers == <<MkUser("t1", "/x"), MkUser("t2", "/x")>>

NextStoreRace ==
    \/ \E p \in Procs :
          \/ \E s \in SessionIds, ttl \in TtlArgs :
                StoreSessionSet(p, s, RaceUsers[p], ttl)
          \/ StoreSessionExpire(p)
    \/ Tick

SpecStoreRace == Init /\ [][NextStoreRace]_vars

(***************************************************************************)
(* Properties of the store on its own (specification Spec).                *)
(***************************************************************************)
\* The logical keys a caller of store id may ask for: those the callers use
\* and those getAllKeys hands out.
AskedKeys(id) ==
    UNION {StoreKeys[i] : i \in StoreIds} \cup GetAllKeysResult(db, id)

\* C1 - namespace isolation: whatever get returns, exists reports or
\* getAllKeys lists on a store was last written by set on that same store,
\* never by a store with another prefix.
C1_NamespaceIsolation ==
    \A id \in StoreIds : \A key \in AskedKeys(id) :
        (\/ GetResult(db, id, key) # Null
         \/ ExistsResult(db, id, key)
         \/ key \in GetAllKeysResult(db, id))
        => meta[PrefixedKey(id, key)].by = id

\* C9 - flush scoping: the delete of flushAll on a store leaves every entry
\* written by a store with another prefix in place, value and TTL unchanged.
C9_FlushScoped ==
    [][\A p \in Procs :
          (pc[p] = "flush_del" /\ pc'[p] = "idle")
          => \A bk \in DOMAIN db :
                meta[bk].by # loc[p].st
                => (bk \in DOMAIN db' /\ db'[bk] = db[bk])]_vars

\* C10 - round trip: a get that directly follows a successful set of the same
\* store on the same key, with no time passed, returns exactly the string
\* that was set, the empty string and strings with the separator included.
C10_RoundTrip ==
    [][\A p \in Procs :
          (/\ ret[p].op = "set" /\ ret[p].err = ""
           /\ ret'[p].op = "get" /\ ret'[p].err = ""
           /\ ret'[p].st = ret[p].st /\ ret'[p].key = ret[p].key
           /\ meta[PrefixedKey(ret[p].st, ret[p].key)].status = "live"
           /\ meta[PrefixedKey(ret[p].st, ret[p].key)].age = 0)
          => ret'[p].out = ret[p].arg]_vars

\* A get has returned the empty string from an entry that was just set.
C10_Witness ==
    \E p \in Procs :
        /\ ret[p].op = "get" /\ ret[p].err = "" /\ ret[p].out = <<>>
        /\ PrefixedKey(ret[p].st, ret[p].key) \in DOMAIN db
        /\ meta[PrefixedKey(ret[p].st, ret[p].key)].age = 0
        /\ meta[PrefixedKey(ret[p].st, ret[p].key)].by = ret[p].st

(***************************************************************************)
(* Properties of the authentication flow (specification SpecAuth).         *)
(***************************************************************************)
\* The session entries of the backend.
Sessions(d, m) == [bk \in {k \in DOMAIN d : m[k].kind = "session"} |-> d[bk]]

FlowKey(state) == PrefixedKey(MainStore, state)

\* The call of caller p ends in this step.
Returns(p, op) == ret'[p] # ret[p] /\ ret'[p].op = op

\* C2 - flow states and sessions live under disjoint backend keys: the key
\* a completion reads and deletes is never the key of a stored session.
C2_DisjointKeys ==
    \A p \in Procs :
        pc[p] = "signin_del"
        => \A bk \in DOMAIN db :
              meta[bk].kind = "session" => FlowKey(loc[p].key) # bk

\* C3 - sequential single use: a completion that found the flow state and
\* whose delete succeeded leaves no entry behind, and a completion that
\* starts after the state was consumed fails with StateNotFoundError.
C3_SequentialSingleUse ==
    /\ [][\A p \in Procs :
             (/\ pc[p] = "signin_del" /\ pc'[p] # "signin_del"
              /\ ret'[p].err # "BackendError"
              /\ ~Falsy(loc[p].value))
             => FlowKey(loc[p].key) \notin DOMAIN db']_vars
    /\ [](\A p \in Procs :
             (/\ ret[p].op = "signinCallback" /\ ret[p].saw = "removed"
              /\ ret[p].err # "BackendError")
             => ret[p].err = "StateNotFoundError")

\* One caller completed the callback of a flow state and then the other
\* caller, with the same callback, was told StateNotFoundError.
C3_Witness ==
    \E p, q \in Procs :
        /\ ret[p].op = "signinCallback" /\ ret[p].err = ""
        /\ ret[q].op = "signinCallback" /\ ret[q].key = ret[p].key
        /\ ret[q].saw = "removed" /\ ret[q].err = "StateNotFoundError"
        /\ meta[FlowKey(ret[p].key)].kind = "flow"

\* C4 - concurrent double completion: a caller that read the flow state
\* goes on to the code exchange although the entry is already gone when its
\* own delete is applied, so two callers can both succeed.
C4_DoubleCompletion ==
    [][\A p \in Procs :
          (/\ pc[p] = "signin_del" /\ pc'[p] # "signin_del"
           /\ ret'[p].err # "BackendError"
           /\ SigninOutcome(loc[p].value, loc[p].key) = "exchange"
           /\ FlowKey(loc[p].key) \notin DOMAIN db)
          => pc'[p] = "signin_token"]_vars

\* Both callers completed the same attempt successfully.
C4_Witness ==
    /\ ret[1].op = "signinCallback" /\ ret[1].err = ""
    /\ ret[2].op = "signinCallback" /\ ret[2].err = ""
    /\ ret[1].key = ret[2].key
    /\ ret[1].saw = "live" /\ ret[2].saw = "live"
    /\ meta[FlowKey(ret[1].key)].status = "removed"

\* C5 - no entry outlives its TTL: an entry in the backend was given its
\* time to live less than that long ago and has the rest of it left, and a
\* completion that reads an expired flow state fails and never reaches the
\* code exchange.
C5_TtlHonoured ==
    /\ \A bk \in DOMAIN db :
          /\ meta[bk].status = "live"
          /\ meta[bk].age < meta[bk].given
          /\ db[bk].ttl = meta[bk].given - meta[bk].age
    /\ \A p \in Procs :
          /\ pc[p] = "signin_token" => loc[p].saw = "live"
          /\ (ret[p].op = "signinCallback" /\ ret[p].saw = "expired")
             => ret[p].err # ""

\* A completion found the flow state of an attempt expired and failed.
C5_Witness ==
    \E p \in Procs :
        /\ ret[p].op = "signinCallback" /\ ret[p].saw = "expired"
        /\ ret[p].err = "StateNotFoundError"
        /\ ret[p].key \in FlowIds
        /\ meta[FlowKey(ret[p].key)].kind = "flow"

\* C6 - a completion that fails leaves the session entries as they were.
C6_FailedCallbackKeepsSessions ==
    [][\A p \in Procs :
          (Returns(p, "signinCallback") /\ ret'[p].err # "")
          => Sessions(db', meta') = Sessions(db, meta)]_vars

\* C7 - a storeUserSession that fails leaves the session that was stored
\* under its identifier when the call began as it was, value and TTL.
C7_FailedStoreKeepsPrior ==
    [][\A p \in Procs :
          (Returns(p, "storeUserSession") /\ ret'[p].err # "")
          => LET bk == PrefixedKey(MainStore, SessionKey(ret'[p].key))
                 prior == IF pc[p] = "store_expire" THEN loc[p].prior
                          ELSE Snapshot(db, meta, bk)
             IN  prior # NoEntry => Snapshot(db', meta', bk) = prior]_vars

\* C8 - a completion whose flow state was consumed, has expired or never
\* existed ends the same way: apart from the history it saw, its result is
\* the StateNotFoundError result.
C8_SameOutcome ==
    \A p \in Procs :
        (/\ ret[p].op = "signinCallback"
         /\ ret[p].saw \in {"never", "removed", "expired"}
         /\ ret[p].err # "BackendError")
        => [ret[p] EXCEPT !.saw = ""]
           = Ret("signinCallback", MainStore, ret[p].key, Null, FALSE, {},
                 "StateNotFoundError")

\* The two callers were told StateNotFoundError, one for a consumed flow
\* state and one for an expired one.
C8_Witness ==
    \E p, q \in Procs :
        /\ ret[p].op = "signinCallback" /\ ret[p].saw = "removed"
        /\ ret[q].op = "signinCallback" /\ ret[q].saw = "expired"
        /\ ret[p].err = "StateNotFoundError"
        /\ ret[q].err = "StateNotFoundError"
        /\ meta[FlowKey(ret[p].key)].kind = "flow"
        /\ meta[FlowKey(ret[q].key)].kind = "flow"

\* C26 - an attempt only moves forward: a completion goes from the read of
\* the state to its delete, then to the checks and the code exchange, or
\* fails; it succeeds only out of the code exchange; the delete comes
\* before the checks whatever their outcome; and a flow state that was
\* consumed is in the backend in no later state, the attempts that end in
\* StateMismatchError or TokenExchangeError included.
C26_ForwardOnly ==
    /\ [][\A p \in Procs :
             /\ pc[p] = "signin_del"
                => pc'[p] \in {"signin_del", "signin_token", "idle"}
             /\ pc[p] = "signin_token"
                => pc'[p] \in {"signin_token", "idle"}
             /\ (pc[p] \in {"signin_del", "signin_token"} /\ pc'[p] = "idle")
                => /\ ret'[p].op = "signinCallback"
                   /\ ret'[p].err = "" => pc[p] = "signin_token"
             /\ (/\ pc[p] = "signin_del" /\ pc'[p] # "signin_del"
                 /\ ret'[p].err # "BackendError")
                => FlowKey(loc[p].key) \notin DOMAIN db'
             /\ \A bk \in DOMAIN meta :
                   (meta[bk].kind = "flow" /\ meta[bk].status = "removed")
                   => (meta'[bk].kind = "flow"
                       /\ meta'[bk].status = "removed")]_vars
    /\ [](/\ \A bk \in DOMAIN meta :
                (meta[bk].kind = "flow" /\ meta[bk].status = "removed")
                => bk \notin DOMAIN db
          /\ \A p \in Procs :
                /\ pc[p] = "signin_token"
                   => FlowKey(loc[p].key) \notin DOMAIN db
                /\ (/\ ret[p].op = "signinCallback"
                    /\ ret[p].err \in {"TokenExchangeError", ""})
                   => FlowKey(ret[p].key) \notin DOMAIN db)

\* An attempt whose flow state was consumed ended in TokenExchangeError,
\* and a completion of a forged callback ended in StateMismatchError.
C26_Witness ==
    \E p, q \in Procs :
        /\ ret[p].op = "signinCallback" /\ ret[p].err = "TokenExchangeError"
        /\ meta[FlowKey(ret[p].key)].kind = "flow"
        /\ meta[FlowKey(ret[p].key)].status = "removed"
        /\ ret[q].op = "signinCallback" /\ ret[q].err = "StateMismatchError"
        /\ FlowKey(ret[q].key) \notin DOMAIN db

(***************************************************************************)
(* Properties of the methods of the store (specification Spec).            *)
(***************************************************************************)
\* C11 - remove semantics: a remove of a key that was never set returns
\* null; the get of remove reads the value the key holds and remove returns
\* it, and once the del is done get returns null and exists false.
C11_RemoveSemantics ==
    /\ [](\A p \in Procs :
             (ret[p].op = "remove" /\ ret[p].err = "" /\ ret[p].saw = "never")
             => ret[p].out = Null)
    /\ [][\A p \in Procs :
             /\ (pc[p] = "idle" /\ pc'[p] = "remove_del"
                 /\ PrefixedKey(loc'[p].st, loc'[p].key) \in DOMAIN db)
                => loc'[p].value
                   = db[PrefixedKey(loc'[p].st, loc'[p].key)].val
             /\ (pc[p] = "remove_del" /\ Returns(p, "remove")
                 /\ ret'[p].err = "")
                => /\ ret'[p].out = loc[p].value
                   /\ GetResult(db', loc[p].st, loc[p].key) = Null
                   /\ ~ExistsResult(db', loc[p].st, loc[p].key)]_vars

\* A remove returned the value of a live entry, and the entry is gone.
C11_Witness ==
    \E p \in Procs :
        /\ ret[p].op = "remove" /\ ret[p].err = "" /\ ret[p].saw = "live"
        /\ ret[p].out = <<":", "v">>
        /\ PrefixedKey(ret[p].st, ret[p].key) \notin DOMAIN db
        /\ meta[PrefixedKey(ret[p].st, ret[p].key)].status = "removed"

\* C12 - enumeration: when no operation is running, getAllKeys on a store
\* lists exactly the logical keys that this store has set and that are
\* neither removed nor expired, and nothing else.
C12_EnumerationExact ==
    (\A p \in Procs : pc[p] = "idle")
    => \A id \in StoreIds :
          GetAllKeysResult(db, id)
          = {key \in AskedKeys(id) :
                /\ PrefixedKey(id, key) \in DOMAIN db
                /\ meta[PrefixedKey(id, key)].by = id}

\* C14 - set replaces value and TTL: a set on an entry of the same store
\* whose time to live expire had changed leaves the new value with the
\* time to live of the store.
C14_SetResetsTtl ==
    [][\A p \in Procs :
          (/\ Returns(p, "set") /\ ret'[p].err = ""
           /\ ret'[p].saw = "retimed")
          => LET bk == PrefixedKey(ret'[p].st, ret'[p].key)
             IN  /\ bk \in DOMAIN db /\ bk \in DOMAIN db'
                 /\ meta[bk].given # Store(ret'[p].st).ttl
                 /\ db'[bk] = [val |-> ret'[p].arg,
                               ttl |-> Store(ret'[p].st).ttl]]_vars

\* A set replaced an entry that expire had retimed, value and TTL.
C14_Witness ==
    \E p \in Procs :
        /\ ret[p].op = "set" /\ ret[p].err = "" /\ ret[p].saw = "retimed"
        /\ ret[p].st = "A"
        /\ PrefixedKey("A", ret[p].key) \in DOMAIN db
        /\ db[PrefixedKey("A", ret[p].key)]
           = [val |-> ret[p].arg, ttl |-> 3600]

\* C15 - expire of a key with no entry (never set, removed or expired)
\* returns without an error and leaves the database as it was.
C15_ExpireMissingIsNoop ==
    [][\A p \in Procs :
          (/\ pc[p] = "idle" /\ Returns(p, "expire")
           /\ failures' = failures
           /\ PrefixedKey(ret'[p].st, ret'[p].key) \notin DOMAIN db)
          => (ret'[p].err = "" /\ db' = db)]_vars

\* An expire of a key whose entry had expired returned normally.
C15_Witness ==
    \E p \in Procs :
        /\ ret[p].op = "expire" /\ ret[p].err = "" /\ ~ret[p].flag
        /\ ret[p].saw = "expired"
        /\ PrefixedKey(ret[p].st, ret[p].key) \notin DOMAIN db

\* C16 - flushAll issues the keys call alone when the enumeration is empty
\* and the keys call then one del, over the enumerated keys, otherwise.
C16_FlushCalls ==
    /\ [](\A p \in Procs :
             (ret[p].op = "flushAll" /\ ret[p].err = "")
             => calls[p] = IF ret[p].keys = {} THEN <<"keys">>
                           ELSE <<"keys", "del">>)
    /\ [][\A p \in Procs :
             (pc[p] = "flush_del" /\ Returns(p, "flushAll")
              /\ ret'[p].err = "")
             => (ret'[p].keys = loc[p].keys
                 /\ db' = RedisDel(db, loc[p].keys))]_vars

\* A flushAll found nothing under a prefix that was flushed before, and
\* issued no del.
C16_Witness ==
    \E p \in Procs :
        /\ ret[p].op = "flushAll" /\ ret[p].err = "" /\ ret[p].keys = {}
        /\ calls[p] = <<"keys">>
        /\ \E bk \in DOMAIN meta :
              meta[bk].status = "flushed" /\ meta[bk].by = ret[p].st

\* C17 - after a flushAll with no writer beside it, getAllKeys of the store
\* is empty and get returns null for every key.
C17_FlushEmpties ==
    [][\A p \in Procs :
          (Returns(p, "flushAll") /\ ret'[p].err = "")
          => /\ GetAllKeysResult(db', ret'[p].st) = {}
             /\ \A key \in AskedKeys(ret'[p].st) :
                   GetResult(db', ret'[p].st, key) = Null]_vars

\* A flushAll deleted two entries of its store and left none.
C17_Witness ==
    \E p \in Procs :
        /\ ret[p].op = "flushAll" /\ ret[p].err = ""
        /\ Cardinality(ret[p].keys) = 2
        /\ \A bk \in ret[p].keys : meta[bk].status = "flushed"
        /\ GetAllKeysResult(db, ret[p].st) = {}

\* C18 - a backend call that fails ends the method that issued it with the
\* error of the backend and no result.
C18_ErrorsPropagate ==
    [][failures' = failures + 1
       => \E p \in Procs :
             /\ pc'[p] = "idle" /\ calls'[p] = Issued(p, ret'[p].op)
             /\ pc[p] # "idle" => ret'[p].op = loc[p].op
             /\ ret'[p].err = "BackendError"
             /\ ret'[p].out = Null /\ ~ret'[p].flag
             /\ ret'[p].keys = {}]_vars

\* The del of a flushAll failed and flushAll threw the error.
C18_Witness ==
    \E p \in Procs :
        /\ ret[p].op = "flushAll" /\ ret[p].err = "BackendError"
        /\ calls[p] = <<"keys", "del">>
        /\ failures = 1

\* C24 - an expired key is like a key that was never set: get, exists,
\* remove and expire on it return what they return on a key never written
\* and leave the database as it was, and getAllKeys lists live keys only.
C24_ExpiredLikeNever ==
    /\ [](\A p \in Procs :
             (/\ ret[p].op \in {"get", "exists", "remove", "expire"}
              /\ ret[p].err = "" /\ ret[p].saw \in {"never", "expired"})
             => [ret[p] EXCEPT !.saw = ""]
                = Ret(ret[p].op, ret[p].st, ret[p].key, Null, FALSE, {}, ""))
    /\ [][\A p \in Procs :
             /\ (/\ Returns(p, "remove") \/ Returns(p, "expire")
                 /\ ret'[p].err = ""
                 /\ ret'[p].saw \in {"never", "expired"})
                => db' = db
             /\ (Returns(p, "getAllKeys") /\ ret'[p].err = "")
                => \A key \in ret'[p].keys :
                      SawOf(meta, PrefixedKey(ret'[p].st, key)) = "live"]_vars

\* exists returned false for a key whose entry had expired, and remove
\* could do the same for a key never written.
C24_Witness ==
    \E p \in Procs :
        /\ ret[p].op = "exists" /\ ret[p].err = "" /\ ~ret[p].flag
        /\ ret[p].saw = "expired"
        /\ \E id \in StoreIds : \E key \in StoreKeys[id] :
              SawOf(meta, PrefixedKey(id, key)) = "never"

(***************************************************************************)
(* Properties of concurrent callers (specification SpecConc).              *)
(***************************************************************************)
\* C25 - concurrent sets on distinct keys do not interfere: once the set of
\* every caller has completed, each key holds the value its own set wrote
\* and getAllKeys returns exactly those keys.
C25_DistinctKeysIndependent ==
    (\A p \in Procs : ret[p].op = "set" /\ ret[p].err = "")
    => /\ \A p \in Procs : GetResult(db, "A", ret[p].key) = ret[p].arg
       /\ GetAllKeysResult(db, "A") = {ret[p].key : p \in Procs}

\* The sets of the two callers have completed with different values.
C25_Witness ==
    /\ \A p \in Procs : ret[p].op = "set" /\ ret[p].err = ""
    /\ ret[1].key # ret[2].key /\ ret[1].arg # ret[2].arg
    /\ Cardinality(DOMAIN db) = 2

(***************************************************************************)
(* Properties of the constructor (specification SpecConfig).               *)
(***************************************************************************)
\* C13 - every set writes the backend key of the configured
\* prefix with the configured ttl, whatever the configured values are, and
\* "oidc:" and 3600 when none is configured.
C13_EveryConfiguredValue ==
    [][\A p \in Procs :
          (Returns(p, "set") /\ ret'[p].err = "")
          => LET config == StoreConfig[ret'[p].st]
                 prefix == IF "keyPrefix" \in DOMAIN config
                           THEN config.keyPrefix ELSE <<"oidc:">>
                 ttl == IF "ttl" \in DOMAIN config THEN config.ttl
                        ELSE 3600
                 bk == prefix \o ret'[p].key
             IN  /\ bk \in DOMAIN db'
                 /\ db'[bk] = [val |-> ret'[p].arg, ttl |-> ttl]]_vars

(***************************************************************************)
(* Properties of the sessions (specification SpecSession).                 *)
(***************************************************************************)
\* The backend calls a finished operation may have issued.
AllowedCalls(op) ==
    CASE op = "set" -> {<<"setEx">>}
      [] op \in {"get", "getUserSession"} -> {<<"get">>}
      [] op \in {"exists", "hasUserSession"} -> {<<"exists">>}
      [] op = "expire" -> {<<"expire">>}
      [] op = "getAllKeys" -> {<<"keys">>}
      [] op \in {"remove", "removeUserSession"}
           -> {<<"get">>, <<"get", "del">>}
      [] op = "flushAll" -> {<<"keys">>, <<"keys", "del">>}
      [] op = "storeUserSession" -> {<<"setEx">>, <<"setEx", "expire">>}
      [] OTHER -> {<<>>}

\* C19 - no retry: an operation issues the backend calls of its method and
\* no call twice (set, get, exists, expire, getAllKeys one call; remove a
\* get then at most a del; flushAll a keys then at most a del;
\* storeUserSession a setEx then at most an expire), and the call that fails
\* is the last call of its operation.
C19_NoRetry ==
    /\ [](\A p \in Procs :
             /\ pc[p] = "idle" => calls[p] \in AllowedCalls(ret[p].op)
             /\ pc[p] # "idle" => Len(calls[p]) = 1
             /\ \A i, j \in DOMAIN calls[p] :
                   calls[p][i] = calls[p][j] => i = j)
    /\ [][\A p \in Procs :
             (failures' = failures + 1 /\ ret'[p] # ret[p])
             => /\ pc'[p] = "idle"
                /\ Len(calls'[p])
                   = (IF pc[p] = "idle" THEN 0 ELSE Len(calls[p])) + 1]_vars

\* The expire of a storeUserSession failed after its setEx, and the
\* operation ended there.
C19_Witness ==
    \E p \in Procs :
        /\ ret[p].op = "storeUserSession" /\ ret[p].err = "BackendError"
        /\ calls[p] = <<"setEx", "expire">>
        /\ pc[p] = "idle"

\* A string that is the serialized form of a session: a JSON text with the
\* token and token type of a user.
IsSessionJson(text) ==
    /\ IsJson(text)
    /\ JsonGet(text, "access_token") # Undefined
    /\ JsonGet(text, "token_type") # Undefined

\* C20 - session corruption safety: getUserSession on a session key whose
\* stored string is not the serialized form of a session returns null and
\* throws nothing, whatever the string is.
C20_CorruptionSafe ==
    \A p \in Procs :
        (/\ ret[p].op = "getUserSession" /\ ret[p].err # "BackendError"
         /\ ret[p].arg # Null /\ ~IsSessionJson(ret[p].arg))
        => (ret[p].out = Null /\ ret[p].err = "")

\* The backend key of the session with identifier s.
SessionBk(s) == PrefixedKey(MainStore, SessionKey(s))

\* The session with identifier s is stored: its entry was written by
\* storeUserSession and is in the backend.
Stored(s) ==
    /\ SessionBk(s) \in DOMAIN db
    /\ meta[SessionBk(s)].kind = "session"

C22_OverrideAlwaysApplied ==
    /\ [](\A p \in Procs :
             (ret[p].op = "storeUserSession" /\ ret[p].err = "")
             => calls[p] = IF ret[p].ttl # NoTtl
                           THEN <<"setEx", "expire">> ELSE <<"setEx">>)
    /\ [][\A p \in Procs :
             (pc[p] = "store_expire" /\ Returns(p, "storeUserSession")
              /\ ret'[p].err = "" /\ SessionBk(ret'[p].key) \in DOMAIN db)
             => db'[SessionBk(ret'[p].key)].ttl = ret'[p].ttl]_vars

\* C27 - getUserSession throws the error of the backend when its get
\* fails, and returns null when the string it got is not JSON.
C27_BackendErrorNotDowngraded ==
    /\ [][\A p \in Procs :
             (/\ failures' = failures + 1 /\ pc[p] = "idle"
              /\ pc'[p] = "idle" /\ ret'[p].op = "getUserSession"
              /\ calls'[p] = Issued(p, "getUserSession"))
             => (ret'[p].err = "BackendError" /\ ret'[p].out = Null)]_vars
    /\ [](\A p \in Procs :
             (/\ ret[p].op = "getUserSession" /\ ret[p].err # "BackendError"
              /\ ~Falsy(ret[p].arg) /\ ~IsJson(ret[p].arg))
             => (ret[p].out = Null /\ ret[p].err = ""))

\* The get of a getUserSession failed while the session was stored, and
\* getUserSession threw the error.
C27_Witness ==
    \E p \in Procs :
        /\ ret[p].op = "getUserSession" /\ ret[p].err = "BackendError"
        /\ failures = 1
        /\ \E s \in SessionIds : ret[p].key = s /\ Stored(s)

\* C30 - removeUserSession returns nothing and no error, whether or not a
\* session is stored; it leaves no entry under the session key and every
\* other entry as it was, so that on a session that is not there, removed
\* just before or never stored, it leaves the database unchanged.
C30_RemoveSessionIdempotent ==
    [][\A p \in Procs :
          (/\ pc[p] = "remove_session_del" /\ pc'[p] = "idle"
           /\ failures' = failures)
          => LET bk == SessionBk(loc[p].key)
             IN  /\ ret'[p].op = "removeUserSession"
                 /\ ret'[p].err = "" /\ ret'[p].out = Null
                 /\ db' = RedisDel(db, {bk})
                 /\ bk \notin DOMAIN db => db' = db]_vars

\* A removeUserSession ran on a session that had just been removed.
C30_Witness ==
    \E p \in Procs :
        /\ ret[p].op = "removeUserSession" /\ ret[p].err = ""
        /\ ret[p].saw = "removed" /\ ret[p].out = Null
        /\ meta[SessionBk(ret[p].key)].kind = "session"

(***************************************************************************)
(* Properties of attempts alone (specification SpecFlow).                  *)
(***************************************************************************)
\* C23 - caller state round trip: the completion of the callback that
\* carries the id createSigninRequest returned, with the code accepted and
\* the state not expired, yields the caller data the attempt began with.
C23_CallerStateRoundTrip ==
    \A p, q \in Procs :
        (/\ ret[p].op = "createSigninRequest" /\ ret[p].err = ""
         /\ ret[q].op = "signinCallback" /\ ret[q].err = ""
         /\ ret[q].key = ret[p].key)
        => ret[q].out = ret[p].arg

\* An attempt begun with the caller data "/y" was completed by the other
\* caller.
C23_Witness ==
    \E p, q \in Procs :
        /\ ret[p].op = "createSigninRequest" /\ ret[p].err = ""
        /\ ret[p].arg = <<"/y">>
        /\ ret[q].op = "signinCallback" /\ ret[q].err = ""
        /\ ret[q].key = ret[p].key /\ ret[q].out = <<"/y">>

\* C28 - when createSigninRequest returns there is one new entry, under
\* the id it returned, with the time to live of the store, and every other
\* entry is as it was; two calls never return the same id.
C28_OneFreshFlowState ==
    /\ [][\A p \in Procs :
             (Returns(p, "createSigninRequest") /\ ret'[p].err = "")
             => LET bk == FlowKey(ret'[p].key)
                IN  /\ bk \notin DOMAIN db
                    /\ DOMAIN db' = DOMAIN db \cup {bk}
                    /\ db'[bk].ttl = 3600
                    /\ StateId(db'[bk].val) = ret'[p].key
                    /\ \A k \in DOMAIN db : db'[k] = db[k]]_vars
    /\ [](\A p, q \in Procs :
             (/\ p # q
              /\ ret[p].op = "createSigninRequest" /\ ret[p].err = ""
              /\ ret[q].op = "createSigninRequest" /\ ret[q].err = "")
             => ret[p].key # ret[q].key)

\* The two callers have begun an attempt each, and both states are stored.
C28_Witness ==
    /\ \A p \in Procs :
          /\ ret[p].op = "createSigninRequest" /\ ret[p].err = ""
          /\ FlowKey(ret[p].key) \in DOMAIN db
    /\ Cardinality(DOMAIN db) = 2

C31_CallbackKeepsSessions ==
    [][\A p \in Procs :
          (/\ pc'[p] # pc[p]
           /\ "signinCallback" \in {loc[p].op, loc'[p].op})
          => /\ Sessions(db', meta') = Sessions(db, meta)
             /\ pc'[p] = "signin_del"
                => FlowKey(loc'[p].key) \notin DOMAIN Sessions(db, meta)]_vars

\* C32 - remove destroys no value it does not return: whenever the del of
\* a remove deletes an entry, the remove returns the value that entry held;
\* a remove that returns null deletes nothing.
C32_RemoveReturnsWhatItDeletes ==
    [][\A p \in Procs :
          (/\ pc[p] = "remove_del" /\ pc'[p] = "idle"
           /\ ret'[p].op = "remove" /\ ret'[p].err = "")
          => \A bk \in DOMAIN db \ DOMAIN db' :
                ret'[p].out = db[bk].val]_vars

\* The time to live storeUserSession of caller p asked for in its last
\* call: the override when one was given, else the default of the store.
AskedTtl(p) ==
    IF ret[p].ttl = NoTtl THEN Store(MainStore).ttl ELSE ret[p].ttl

\* C33 - concurrent storeUserSession calls on one identifier leave a
\* consistent entry: once both callers have completed, the record stored
\* and its time to live come from the same call.
C33_RecordAndTtlFromOneCall ==
    \A s \in SessionIds :
        (/\ \A p \in Procs :
               /\ pc[p] = "idle"
               /\ ret[p].op = "storeUserSession" /\ ret[p].err = ""
               /\ ret[p].key = s
         /\ Stored(s))
        => \E p \in Procs :
              /\ db[SessionBk(s)].val = UserJson(RaceUsers[p])
              /\ meta[SessionBk(s)].given = AskedTtl(p)

\* What hasUserSession(s) returns in this state.
Has(s) == ExistsResult(db, MainStore, SessionKey(s))

\* What getUserSession(s) returns in this state.
Got(s) == GetUserSessionResult(GetResult(db, MainStore, SessionKey(s)))

\* C34 - hasUserSession and getUserSession agree: whatever string is stored
\* under the session key, hasUserSession(s) returns true exactly when
\* getUserSession(s) returns a record.
C34_HasIffGet ==
    \A s \in SessionIds : Has(s) <=> Got(s) # Null

\* C34, amended - getUserSession(s) returns a record only when
\* hasUserSession(s) returns true, and both agree on an entry that
\* storeUserSession wrote; on a stored string that is empty or not JSON
\* hasUserSession returns true and getUserSession null.
C34_HasWhenGet ==
    \A s \in SessionIds :
        /\ Got(s) # Null => Has(s)
        /\ Stored(s) => (Has(s) /\ Got(s) # Null)
        /\ (Has(s) /\ Got(s) = Null)
           => LET userJson == GetResult(db, MainStore, SessionKey(s))
              IN  userJson = <<>> \/ ~IsJson(userJson)

\* hasUserSession returned true on a session key that holds a string
\* getUserSession returns null for.
C34_Witness ==
    \E p \in Procs, s \in SessionIds :
        /\ pc[p] = "idle"
        /\ ret[p].op = "hasUserSession" /\ ret[p].key = s /\ ret[p].flag
        /\ Has(s) /\ Got(s) = Null

\* C35 - a method of the store that fails with a backend error leaves the
\* entries as they were, values and TTLs: the step in which a set, remove,
\* expire or flushAll throws changes no entry; a remove whose get fails has
\* issued no del, and a remove whose del fails leaves the value it read
\* readable.
C35_FailedCallChangesNothing ==
    [][\A p \in Procs :
          (/\ failures' # failures
           /\ calls'[p] = Issued(p, ret'[p].op)
           /\ ret'[p].op \in {"set", "remove", "expire", "flushAll"}
           /\ ret'[p].err # "")
          => /\ db' = db
             /\ (ret'[p].op = "remove" /\ pc[p] = "idle")
                => calls'[p] = <<"get">>
             /\ (ret'[p].op = "remove" /\ pc[p] = "remove_del"
                 /\ PrefixedKey(ret'[p].st, ret'[p].key) \in DOMAIN db)
                => GetResult(db', ret'[p].st, ret'[p].key)
                   = loc[p].value]_vars

\* A remove failed at its del, and the value it had read is still there.
C35_Witness ==
    \E p \in Procs :
        /\ pc[p] = "idle"
        /\ ret[p].op = "remove" /\ ret[p].err = "BackendError"
        /\ calls[p] = <<"get", "del">>
        /\ GetResult(db, ret[p].st, ret[p].key) = <<":", "v">>

\* Caller p takes a step of a method in this step.
Acts(p) == pc'[p] # pc[p] \/ ret'[p] # ret[p] \/ calls'[p] # calls[p]

\* The method caller p is in after this step, and its store and key.
Acting(p) ==
    IF pc'[p] = "idle"
    THEN [op |-> ret'[p].op, st |-> ret'[p].st, key |-> ret'[p].key]
    ELSE [op |-> loc'[p].op, st |-> loc'[p].st, key |-> loc'[p].key]

\* C36 - per-key frame: a step of set, remove or expire on key k changes
\* no other backend key, value or TTL; a step of get, exists or getAllKeys
\* changes nothing; expire on a key that exists changes its TTL at most,
\* never its value.
C36_PerKeyFrame ==
    [][\A p \in Procs :
          Acts(p)
          => LET a == Acting(p)
                 bk == PrefixedKey(a.st, a.key)
             IN  /\ a.op \in {"set", "remove", "expire"}
                    => \A k \in (DOMAIN db \cup DOMAIN db') \ {bk} :
                          /\ k \in DOMAIN db /\ k \in DOMAIN db'
                          /\ db'[k] = db[k]
                 /\ a.op \in {"get", "exists", "getAllKeys"} => db' = db
                 /\ (a.op = "expire" /\ bk \in DOMAIN db)
                    => /\ bk \in DOMAIN db'
                       /\ db'[bk].val = db[bk].val]_vars

\* An expire changed the TTL of a key that holds a value, beside another
\* key of the store.
C36_Witness ==
    \E p \in Procs :
        LET bk == PrefixedKey(ret[p].st, ret[p].key)
        IN  /\ pc[p] = "idle"
            /\ ret[p].op = "expire" /\ ret[p].flag /\ ret[p].st = MainStore
            /\ bk \in DOMAIN db
            /\ db[bk].val = <<":", "v">>
            /\ meta[bk].given # Store(MainStore).ttl
            /\ \E k \in DOMAIN db : k # bk /\ meta[k].by = MainStore

\* C37 - the three observers of a store agree: when no call is under way,
\* for every key of every store exists is true exactly when get returns a
\* value, the empty string included, and exactly when getAllKeys lists the
\* key.
C37_ObserversAgree ==
    (\A p \in Procs : pc[p] = "idle")
    => \A id \in StoreIds : \A key \in AskedKeys(id) :
          /\ ExistsResult(db, id, key) <=> GetResult(db, id, key) # Null
          /\ ExistsResult(db, id, key) <=> key \in GetAllKeysResult(db, id)

\* exists returned true on a key that holds the empty string, which get
\* returns and getAllKeys lists.
C37_Witness ==
    \E p \in Procs :
        /\ \A q \in Procs : pc[q] = "idle"
        /\ ret[p].op = "exists" /\ ret[p].flag
        /\ GetResult(db, ret[p].st, ret[p].key) = <<>>
        /\ ret[p].key \in GetAllKeysResult(db, ret[p].st)

====
